---- MODULE Spec2Model ----
(***************************************************************************)
(* A model of renderer/render.go: the Renderer (configuration, options,    *)
(* delimiters), its Validate -> Parse -> Execute pipeline, the function    *)
(* table with the recursive "render" entry, and the file entry point.      *)
(*                                                                         *)
(* A template text is a sequence of tokens.  In text mode every token that *)
(* is not the left delimiter is literal text; an action runs from the left *)
(* delimiter to the next right delimiter outside a quoted string.  The     *)
(* byte layout used for error positions puts one space before every token  *)
(* of an action, as in "{{ .missing }}".                                   *)
(***************************************************************************)
EXTENDS Integers, Sequences, FiniteSets, TLC

\* ------------------------------------------------------------------ bounds
\* longest option list handed to New
MaxOpts == 2
\* number of nested Render frames the call stack can hold
StackCapacity == 6

\* --------------------------------------------------------------- constants
MissingKeyInvalidOption == "missingkey=invalid"
MissingKeyErrorOption == "missingkey=error"
LeftDelim == "{{"
RightDelim == "}}"
\* 0644
FileMode == 420

Quote == "\""
Newline == "\n"
NoValue == "<no value>"

\* an error is a chain of frames, outermost first; Nil is "no error"
Nil == <<>>

Frame(kind, msg, name, line, col, key) ==
    [kind |-> kind, msg |-> msg, name |-> name, line |-> line, col |-> col, key |-> key]

\* ------------------------------------------------------ token vocabulary
FieldTokens == {".something", ".missing", ".v", ".w"}
IdentTokens == {"render", "readFile", "fail", "nofunc"}
NumberTokens == {"1"}

\* the map key a field token looks up
FieldKey(tok) ==
    CASE tok = ".something" -> "something"
      [] tok = ".missing" -> "missing"
      [] tok = ".v" -> "v"
      [] tok = ".w" -> "w"
      [] OTHER -> tok

\* number of bytes of a token
Width(tok) ==
    CASE tok \in {"{{", "}}", "[[", "]]", ".v", ".w"} -> 2
      [] tok \in {"1", Quote, Newline} -> 1
      [] tok \in {"test", "fail", "boom"} -> 4
      [] tok \in {"test-", "-test"} -> 5
      [] tok \in {"render", "nofunc"} -> 6
      [] tok \in {"out.txt"} -> 7
      [] tok \in {".missing", "readFile"} -> 8
      [] tok \in {".something", NoValue} -> 10
      [] OTHER -> 1

\* ---------------------------------------------------------- configuration
\* the data root: a map from keys to string values (token sequences)
ConfigData ==
    [k \in {"something", "v", "w"} |->
        CASE k = "something" -> <<"test">>
          [] k = "v" -> <<"{{", "render", ".v", "}}">>
          [] k = "w" -> <<"{{", ".something", "}}">>]

NilConfiguration == [present |-> FALSE, valid |-> FALSE, data |-> ConfigData]

Configurations ==
    { NilConfiguration,
      [present |-> TRUE, valid |-> FALSE, data |-> ConfigData],
      [present |-> TRUE, valid |-> TRUE, data |-> ConfigData] }

\* configuration.Validate(): the configuration's own check
ConfigurationValidate(c) ==
    IF c.valid THEN Nil
    ELSE <<Frame("configuration", "invalid configuration", "", 0, 0, "")>>

OptionStrings == {MissingKeyErrorOption, MissingKeyInvalidOption, "missingkey=zero"}

RECURSIVE SeqsUpTo(_, _)
SeqsUpTo(S, n) ==
    IF n = 0 THEN {<<>>}
    ELSE LET shorter == SeqsUpTo(S, n - 1)
         IN shorter \cup {Append(s, x) : s \in shorter, x \in S}

OptionLists == SeqsUpTo(OptionStrings, MaxOpts)

\* the delimiter pairs handed to Delim
DelimPairs == { <<"{{", "}}">>, <<"[[", "]]">>, <<"", "}}">>, <<"[[", "">> }

\* ---------------------------------------------------------------- Renderer
\* New(configuration, opts...)
New(c, opts) ==
    [configuration |-> c, options |-> opts,
     leftDelim |-> LeftDelim, rightDelim |-> RightDelim]

\* faulty variant: the loop over the options stops after the first one
FirstUnexpectedHeadOnly(opts, i) ==
    IF i > Len(opts) \/ i > 1 THEN ""
    ELSE IF opts[i] \notin {MissingKeyErrorOption, MissingKeyInvalidOption} THEN opts[i]
    ELSE ""

\* the first option outside the two recognised literals, or "" when none
RECURSIVE FirstUnexpected(_, _)
FirstUnexpected(opts, i) ==
    IF i > Len(opts) THEN ""
    ELSE IF opts[i] \notin {MissingKeyErrorOption, MissingKeyInvalidOption} THEN opts[i]
    ELSE FirstUnexpected(opts, i + 1)

\* faulty variant: the case for "missingkey=invalid" is missing from the switch
ValidateStrict(r) ==
    IF ~r.configuration.present
    THEN <<Frame("validate", "unexpected 'nil' configuration", "", 0, 0, "")>>
    ELSE IF ConfigurationValidate(r.configuration) # Nil
    THEN ConfigurationValidate(r.configuration)
    ELSE IF r.leftDelim = ""
    THEN <<Frame("validate", "unexpected empty leftDelim", "", 0, 0, "")>>
    ELSE IF r.rightDelim = ""
    THEN <<Frame("validate", "unexpected empty rightDelim", "", 0, 0, "")>>
    ELSE IF \E i \in 1..Len(r.options) : r.options[i] # MissingKeyErrorOption
    THEN <<Frame("validate", "unexpected option", "", 0, 0, "")>>
    ELSE Nil

Validate(r) ==
    IF ~r.configuration.present
    THEN <<Frame("validate", "unexpected 'nil' configuration", "", 0, 0, "")>>
    ELSE IF ConfigurationValidate(r.configuration) # Nil
    THEN ConfigurationValidate(r.configuration)
    ELSE IF r.leftDelim = ""
    THEN <<Frame("validate", "unexpected empty leftDelim", "", 0, 0, "")>>
    ELSE IF r.rightDelim = ""
    THEN <<Frame("validate", "unexpected empty rightDelim", "", 0, 0, "")>>
    ELSE IF FirstUnexpected(r.options, 1) # ""
    THEN <<Frame("validate", "unexpected option", "", 0, 0, FirstUnexpected(r.options, 1))>>
    ELSE Nil

\* ------------------------------------------------------------------- state
VARIABLES
    configuration,  \* Renderer.configuration
    options,        \* Renderer.options
    leftDelim,      \* Renderer.leftDelim
    rightDelim,     \* Renderer.rightDelim
    sprigFuncs,     \* what sprig.TxtFuncMap() returns in this build
    fs,             \* the files ReadInput and ReadFile see ("" is standard input)
    lastOp,         \* the method called last
    lastArgs,       \* the arguments of the last Delim or FileRender
    lastName,       \* template name of the last Render
    lastText,       \* template text of the last Render
    lastRes,        \* what the last Render returned
    lastErr,        \* what the last Validate or FileRender returned
    ioLog           \* the file collaborator's calls made by the last FileRender

vars == <<configuration, options, leftDelim, rightDelim, sprigFuncs, fs,
          lastOp, lastArgs, lastName, lastText, lastRes, lastErr, ioLog>>

\* the Renderer the methods are called on
Self ==
    [configuration |-> configuration, options |-> options,
     leftDelim |-> leftDelim, rightDelim |-> rightDelim]

\* ---------------------------------------------------------- function table
\* a table entry: the function and, for a method value, its receiver
NoReceiver == New(NilConfiguration, <<>>)
Func(fn) == [fn |-> fn, recv |-> NoReceiver]
Method(fn, r) == [fn |-> fn, recv |-> r]

SprigImpl(n) ==
    CASE n = "fail" -> Func("sprig.fail")
      [] n = "upper" -> Func("sprig.upper")
      [] n = "render" -> Func("sprig.render")
      [] n = "toYaml" -> Func("sprig.toYaml")
      [] n = "gzip" -> Func("sprig.gzip")
      [] OTHER -> Func("sprig.other")

\* the generic library as shipped, and a release that also defines names
\* the custom functions use
SprigLibraries ==
    { [n \in {"fail", "upper"} |-> SprigImpl(n)],
      [n \in {"fail", "upper", "render", "toYaml", "gzip"} |-> SprigImpl(n)] }

TxtFuncMap == sprigFuncs

CustomNames == {"render", "readFile", "toYaml", "ungzip", "gzip"}

\* faulty variant: render is bound to a fresh Renderer of the same configuration
CustomImplFresh(r, n) ==
    CASE n = "render" -> Method("SimpleRender", New(r.configuration, <<>>))
      [] n = "readFile" -> Method("ReadFile", r)
      [] n = "toYaml" -> Func("ToYaml")
      [] n = "ungzip" -> Func("Ungzip")
      [] n = "gzip" -> Func("Gzip")

CustomImpl(r, n) ==
    CASE n = "render" -> Method("SimpleRender", r)
      [] n = "readFile" -> Method("ReadFile", r)
      [] n = "toYaml" -> Func("ToYaml")
      [] n = "ungzip" -> Func("Ungzip")
      [] n = "gzip" -> Func("Gzip")

\* faulty variant: the generic library is laid over the custom entries
ExtraFunctionsSprigWins(r) ==
    [n \in (DOMAIN TxtFuncMap) \cup CustomNames |->
        IF n \in DOMAIN TxtFuncMap THEN TxtFuncMap[n] ELSE CustomImpl(r, n)]

ExtraFunctions(r) ==
    [n \in (DOMAIN TxtFuncMap) \cup CustomNames |->
        IF n \in CustomNames THEN CustomImpl(r, n) ELSE TxtFuncMap[n]]

\* ------------------------------------------------------------------ parser
\* faulty variant: the first option is kept and the later ones are ignored
MissingKeyFirstWins(opts, i, cur) ==
    IF opts = <<>> THEN cur
    ELSE CASE opts[1] = MissingKeyErrorOption -> "error"
           [] opts[1] = MissingKeyInvalidOption -> "invalid"
           [] OTHER -> "panic"

\* Option(r.options...): each option overwrites the one before it
RECURSIVE MissingKey(_, _, _)
MissingKey(opts, i, cur) ==
    IF i > Len(opts) THEN cur
    ELSE MissingKey(opts, i + 1,
            CASE opts[i] = MissingKeyErrorOption -> "error"
              [] opts[i] = MissingKeyInvalidOption -> "invalid"
              [] opts[i] = "missingkey=zero" -> "zero"
              [] OTHER -> "panic")

\* index of the right delimiter that closes the action, 0 when there is none
RECURSIVE ActionEnd(_, _, _, _)
ActionEnd(text, j, right, inQuote) ==
    IF j > Len(text) THEN 0
    ELSE IF inQuote THEN ActionEnd(text, j + 1, right, text[j] # Quote)
    ELSE IF text[j] = right THEN j
    ELSE ActionEnd(text, j + 1, right, text[j] = Quote)

\* byte offset, on its line, of every token of an action body
RECURSIVE Offsets(_, _, _, _, _)
Offsets(body, i, off, inQuote, first) ==
    IF i > Len(body) THEN <<>>
    ELSE LET tok == body[i]
             start == IF inQuote
                      THEN (IF tok = Quote \/ first THEN off ELSE off + 1)
                      ELSE off + 1
             nowIn == IF tok = Quote THEN ~inQuote ELSE inQuote
         IN <<start>> \o Offsets(body, i + 1, start + Width(tok), nowIn,
                                 ~inQuote /\ tok = Quote)

RECURSIVE NextQuote(_, _)
NextQuote(body, i) ==
    IF i > Len(body) THEN 0
    ELSE IF body[i] = Quote THEN i
    ELSE NextQuote(body, i + 1)

ItemKind(tok) ==
    CASE tok \in FieldTokens -> "field"
      [] tok \in IdentTokens -> "ident"
      [] tok \in NumberTokens -> "number"
      [] OTHER -> "bad"

Item(kind, val, arg, col) == [kind |-> kind, val |-> val, arg |-> arg, col |-> col]

\* the lexer's items of an action body; a quoted string is one item
RECURSIVE Items(_, _, _)
Items(body, offs, i) ==
    IF i > Len(body) THEN <<>>
    ELSE IF body[i] = Quote
    THEN LET k == NextQuote(body, i + 1)
         IN <<Item("string", "", SubSeq(body, i + 1, k - 1), offs[i])>>
            \o Items(body, offs, k + 1)
    ELSE <<Item(ItemKind(body[i]), body[i], <<>>, offs[i])>>
         \o Items(body, offs, i + 1)

\* why the items do not parse: <<message, offending token>>, or <<"", "">>
RECURSIVE ItemsError(_, _, _)
ItemsError(items, funcs, i) ==
    IF i > Len(items)
    THEN (IF items = <<>> THEN <<"missing value for command", "">> ELSE <<"", "">>)
    ELSE LET it == items[i]
         IN IF it.kind = "bad"
            THEN <<"unexpected token in action", it.val>>
            ELSE IF it.kind = "string" /\ \E j \in 1..Len(it.arg) : it.arg[j] = Newline
            THEN <<"unterminated quoted string", "">>
            ELSE IF it.kind = "ident" /\ it.val \notin DOMAIN funcs
            THEN <<"function not defined", it.val>>
            ELSE ItemsError(items, funcs, i + 1)

TextNode(tok) ==
    [kind |-> "text", val |-> tok, arg |-> <<>>, argKind |-> "none", argVal |-> "",
     line |-> 0, col |-> 0, argCol |-> 0]

\* the node of one action
ActionNode(items, line) ==
    LET a == items[1]
    IN IF a.kind = "ident"
       THEN [kind |-> "call", val |-> a.val,
             arg |-> IF Len(items) = 2 THEN items[2].arg ELSE <<>>,
             argKind |-> IF Len(items) = 1 THEN "none"
                         ELSE IF Len(items) > 2 THEN "many"
                         ELSE items[2].kind,
             argVal |-> IF Len(items) = 2 THEN items[2].val ELSE "",
             line |-> line, col |-> a.col,
             argCol |-> IF Len(items) = 2 THEN items[2].col ELSE 0]
       ELSE [kind |-> IF Len(items) = 1 THEN a.kind ELSE "nonfunc",
             val |-> a.val, arg |-> a.arg, argKind |-> "none", argVal |-> "",
             line |-> line, col |-> a.col, argCol |-> 0]

ParseError(msg, name, line, key) ==
    [err |-> <<Frame("parse", msg, name, line, 0, key)>>, nodes |-> <<>>]

RECURSIVE ParseText(_, _, _, _, _, _, _, _, _)
ParseText(text, i, line, off, left, right, name, funcs, nodes) ==
    IF i > Len(text) THEN [err |-> Nil, nodes |-> nodes]
    ELSE IF text[i] = left
    THEN LET e == ActionEnd(text, i + 1, right, FALSE)
             body == SubSeq(text, i + 1, e - 1)
             offs == Offsets(body, 1, off + Width(left), FALSE, FALSE)
             items == Items(body, offs, 1)
             bad == ItemsError(items, funcs, 1)
             endOff == (IF body = <<>> THEN off + Width(left)
                        ELSE offs[Len(body)] + Width(body[Len(body)]))
                       + 1 + Width(right)
         IN IF e = 0 THEN ParseError("unclosed action", name, line, "")
            ELSE IF bad[1] # "" THEN ParseError(bad[1], name, line, bad[2])
            ELSE ParseText(text, e + 1, line, endOff, left, right, name, funcs,
                           Append(nodes, ActionNode(items, line)))
    ELSE ParseText(text, i + 1,
                   IF text[i] = Newline THEN line + 1 ELSE line,
                   IF text[i] = Newline THEN 0 ELSE off + Width(text[i]),
                   left, right, name, funcs, Append(nodes, TextNode(text[i])))

\* faulty variant: the template is built without Option(r.options...)
ParseNoOptions(r, templateName, rawTemplate, extraFunctions) ==
    LET p == ParseText(rawTemplate, 1, 1, 0, r.leftDelim, r.rightDelim,
                       templateName, extraFunctions, <<>>)
    IN [err |-> p.err, name |-> templateName, nodes |-> p.nodes,
        funcs |-> extraFunctions, missingKey |-> "invalid"]

\* template.New(name).Delims(l, r).Funcs(f).Option(opts...).Parse(text)
Parse(r, templateName, rawTemplate, extraFunctions) ==
    LET p == ParseText(rawTemplate, 1, 1, 0, r.leftDelim, r.rightDelim,
                       templateName, extraFunctions, <<>>)
    IN [err |-> p.err, name |-> templateName, nodes |-> p.nodes,
        funcs |-> extraFunctions, missingKey |-> MissingKey(r.options, 1, "invalid")]

\* ---------------------------------------------------------------- executor
Result(out, err, stages, calls) ==
    [out |-> out, err |-> err, stages |-> stages, calls |-> calls, overflow |-> FALSE]

\* the goroutine stack is exhausted: the runtime aborts the process and the
\* call returns nothing
Overflowed ==
    [out |-> <<>>, err |-> Nil, stages |-> <<>>, calls |-> <<>>, overflow |-> TRUE]

NoResult == Result(<<>>, Nil, <<>>, <<>>)

\* files.ReadInput(path): the bytes of the file, or of standard input for ""
ReadInput(path) ==
    IF path \in DOMAIN fs THEN [path |-> path, data |-> fs[path], err |-> Nil]
    ELSE [path |-> path, data |-> <<>>,
          err |-> <<Frame("io", "cannot read", "", 0, 0, path)>>]

\* Renderer.ReadFile(file): the contents of the file the string names
ReadFile(r, file, files) ==
    IF Len(file) = 1 /\ file[1] # "" /\ file[1] \in DOMAIN files
    THEN Result(files[file[1]], Nil, <<>>, <<>>)
    ELSE Result(<<>>, <<Frame("io", "cannot read", "", 0, 0, "")>>, <<>>, <<>>)

ExecError(msg, t, line, col, key) ==
    <<Frame("exec", msg, t.name, line, col, key)>>

\* where a call runs: the depth of Render frames on the stack and the files
\* on disk
Env(files) == [depth |-> 1, files |-> files]
Deeper(env) == [env EXCEPT !.depth = @ + 1]

Step(out, err, calls, overflow) ==
    [out |-> out, err |-> err, calls |-> calls, overflow |-> overflow]

RECURSIVE Render(_, _, _, _)
RECURSIVE SimpleRender(_, _, _)
RECURSIVE ApplyFunc(_, _, _)
RECURSIVE EvalCall(_, _, _, _)
RECURSIVE EvalNode(_, _, _, _)
RECURSIVE ExecNodes(_, _, _, _, _, _)
RECURSIVE Execute(_, _, _)

\* the call of a function of the table with one string argument
ApplyFunc(entry, arg, env) ==
    CASE entry.fn = "SimpleRender" -> SimpleRender(entry.recv, arg, Deeper(env))
      [] entry.fn = "ReadFile" -> ReadFile(entry.recv, arg, env.files)
      [] entry.fn = "sprig.fail" ->
            Result(<<>>, <<Frame("func", "fail", "", 0, 0, "")>>, <<>>, <<>>)
      [] OTHER -> Result(<<entry.fn>> \o arg, Nil, <<>>, <<>>)

\* a function call node: check the argument count, evaluate the argument as
\* a string, call, and fail when the function returns an error
EvalCall(t, data, n, env) ==
    LET key == FieldKey(n.argVal)
        missing == n.argKind = "field" /\ key \notin DOMAIN data
        arg == IF n.argKind = "field" THEN data[key] ELSE n.arg
        res == ApplyFunc(t.funcs[n.val], arg, env)
        call == [name |-> n.val, fn |-> t.funcs[n.val].fn, arg |-> arg,
                 out |-> res.out, err |-> res.err, stages |-> res.stages]
    IN IF n.argKind \in {"none", "many"}
       THEN Step(<<>>, ExecError("wrong number of args", t, n.line, n.col, n.val),
                 <<>>, FALSE)
       ELSE IF n.argKind \notin {"field", "string"}
       THEN Step(<<>>, ExecError("expected string", t, n.line, n.argCol, n.argVal),
                 <<>>, FALSE)
       ELSE IF missing /\ t.missingKey = "error"
       THEN Step(<<>>, ExecError("map has no entry for key", t, n.line, n.argCol, key),
                 <<>>, FALSE)
       ELSE IF missing
       THEN Step(<<>>, ExecError("invalid value; expected string", t, n.line, n.argCol, key),
                 <<>>, FALSE)
       ELSE IF res.overflow THEN Step(<<>>, Nil, <<>>, TRUE)
       ELSE IF res.err # Nil
       THEN Step(<<>>, ExecError("error calling", t, n.line, n.col, n.val) \o res.err,
                 <<call>>, FALSE)
       ELSE Step(res.out, Nil, <<call>>, FALSE)

EvalNode(t, data, n, env) ==
    CASE n.kind \in {"text", "number"} -> Step(<<n.val>>, Nil, <<>>, FALSE)
      [] n.kind = "string" -> Step(n.arg, Nil, <<>>, FALSE)
      [] n.kind = "field" ->
            LET key == FieldKey(n.val)
            IN IF key \in DOMAIN data THEN Step(data[key], Nil, <<>>, FALSE)
               ELSE IF t.missingKey = "error"
               THEN Step(<<>>, ExecError("map has no entry for key", t, n.line, n.col, key),
                         <<>>, FALSE)
               ELSE Step(<<NoValue>>, Nil, <<>>, FALSE)
      [] n.kind = "call" -> EvalCall(t, data, n, env)
      [] OTHER ->
            Step(<<>>, ExecError("can't give argument to non-function", t, n.line, n.col, n.val),
                 <<>>, FALSE)

\* t.Execute(&buffer, data): the nodes in order into the buffer, up to the
\* first error; what was written before the error stays in the buffer
ExecNodes(t, data, i, buffer, calls, env) ==
    IF i > Len(t.nodes) THEN Step(buffer, Nil, calls, FALSE)
    ELSE LET s == EvalNode(t, data, t.nodes[i], env)
         IN IF s.overflow THEN Step(<<>>, Nil, <<>>, TRUE)
            ELSE IF s.err # Nil THEN Step(buffer, s.err, calls \o s.calls, FALSE)
            ELSE ExecNodes(t, data, i + 1, buffer \o s.out, calls \o s.calls, env)

Execute(r, t, env) ==
    LET x == ExecNodes(t, r.configuration.data, 1, <<>>, <<>>, env)
    IN IF x.overflow THEN Step(<<>>, Nil, <<>>, TRUE)
       ELSE IF x.err # Nil
       THEN Step(<<>>,
                 <<Frame("wrap", "Error evaluating the template named", t.name, 0, 0, "")>>
                    \o x.err,
                 x.calls, FALSE)
       ELSE Step(x.out, Nil, x.calls, FALSE)

\* faulty variant: the "return err" after Parse is missing
RenderIgnoresParseError(r, templateName, rawTemplate, env) ==
    IF env.depth > StackCapacity THEN Overflowed
    ELSE IF Validate(r) # Nil
    THEN Result(<<>>, Validate(r), <<"Validate">>, <<>>)
    ELSE LET t == Parse(r, templateName, rawTemplate, ExtraFunctions(r))
             x == Execute(r, t, env)
         IN IF x.overflow THEN Overflowed
            ELSE IF x.err # Nil
            THEN Result(<<>>, x.err, <<"Validate", "Parse", "Execute">>, x.calls)
            ELSE Result(x.out, Nil, <<"Validate", "Parse", "Execute">>, x.calls)

Render(r, templateName, rawTemplate, env) ==
    IF env.depth > StackCapacity THEN Overflowed
    ELSE IF Validate(r) # Nil
    THEN Result(<<>>, Validate(r), <<"Validate">>, <<>>)
    ELSE LET t == Parse(r, templateName, rawTemplate, ExtraFunctions(r))
             x == Execute(r, t, env)
         IN IF t.err # Nil
            THEN Result(<<>>, t.err, <<"Validate", "Parse">>, <<>>)
            ELSE IF x.overflow THEN Overflowed
            ELSE IF x.err # Nil
            THEN Result(<<>>, x.err, <<"Validate", "Parse", "Execute">>, x.calls)
            ELSE Result(x.out, Nil, <<"Validate", "Parse", "Execute">>, x.calls)

SimpleRender(r, rawTemplate, env) ==
    Render(r, "nameless", rawTemplate, env)

\* faulty variant: an empty delimiter is refused and the old one kept
DelimChecked(r, left, right) ==
    [r EXCEPT !.leftDelim = IF left = "" THEN r.leftDelim ELSE left,
              !.rightDelim = IF right = "" THEN r.rightDelim ELSE right]

Delim(r, left, right) ==
    [r EXCEPT !.leftDelim = left, !.rightDelim = right]

\* files.WriteOutput(path, data, mode): "" is standard output
Unwritable == {"/ro/out.txt"}

WriteOutput(path, data, mode) ==
    IF path \in Unwritable
    THEN [fs |-> fs, err |-> <<Frame("io", "cannot write", "", 0, 0, path)>>]
    ELSE IF path = "" THEN [fs |-> fs, err |-> Nil]
    ELSE [fs |-> [p \in (DOMAIN fs) \cup {path} |-> IF p = path THEN data ELSE fs[p]],
          err |-> Nil]

IoCall(op, path, data, mode) == [op |-> op, path |-> path, data |-> data, mode |-> mode]

\* faulty variant: the "return err" after Render is missing
FileRenderAlwaysWrites(in, templateName, res, outputPath) ==
    LET w == WriteOutput(outputPath, res.out, FileMode)
        read == IoCall("ReadInput", in.path, <<>>, 0)
        write == IoCall("WriteOutput", outputPath, res.out, FileMode)
    IN IF in.err # Nil
       THEN [err |-> in.err, log |-> <<read>>, fs |-> fs, rendered |-> FALSE,
             name |-> "", text |-> <<>>, res |-> NoResult]
       ELSE [err |-> w.err, log |-> <<read, write>>, fs |-> w.fs, rendered |-> TRUE,
             name |-> templateName, text |-> in.data, res |-> res]

\* the body of FileRender after its two calls have returned: "in" is what
\* ReadInput gave, "res" what Render gave for the text that was read
FileRenderReturn(in, templateName, res, outputPath) ==
    LET w == WriteOutput(outputPath, res.out, FileMode)
        read == IoCall("ReadInput", in.path, <<>>, 0)
        write == IoCall("WriteOutput", outputPath, res.out, FileMode)
    IN IF in.err # Nil
       THEN [err |-> in.err, log |-> <<read>>, fs |-> fs, rendered |-> FALSE,
             name |-> "", text |-> <<>>, res |-> NoResult]
       ELSE IF res.overflow \/ res.err # Nil
       THEN [err |-> res.err, log |-> <<read>>, fs |-> fs, rendered |-> TRUE,
             name |-> templateName, text |-> in.data, res |-> res]
       ELSE [err |-> w.err, log |-> <<read, write>>, fs |-> w.fs, rendered |-> TRUE,
             name |-> templateName, text |-> in.data, res |-> res]

FileRenderNamed(r, in, templateName, outputPath) ==
    FileRenderReturn(in, templateName,
                     Render(r, templateName, in.data, Env(fs)), outputPath)

FileRender(r, inputPath, outputPath) ==
    FileRenderNamed(r, ReadInput(inputPath),
                    IF inputPath = "" THEN "stdin" ELSE inputPath, outputPath)

\* ------------------------------------------------------------------ inputs
Templates ==
    { <<>>,
      <<"test-", "{{", ".something", "}}", "-test">>,
      <<"{{", ".missing", "}}">>,
      <<"test-", Newline, "test-", "{{", ".missing", "}}">>,
      <<"{{", "render", Quote, "{{", "1", "}}", Quote, "}}">>,
      <<"{{", "render", Quote, "{{", ".missing", "}}", Quote, "}}">>,
      <<"{{", "render", ".v", "}}">>,
      <<"{{", "render", ".w", "}}">>,
      <<"{{", ".something">>,
      <<"{{", "nofunc", "1", "}}">>,
      <<"{{", "fail", Quote, "boom", Quote, "}}">>,
      <<"{{", "readFile", Quote, "out.txt", Quote, "}}">>,
      <<"[[", ".something", "]]", "{{">> }

TemplateNames == {"t.tmpl"}
InputPaths == {"", "in.tmpl", "nofile.tmpl"}
OutputPaths == {"", "out.txt", "/ro/out.txt"}

InitialFiles ==
    [p \in {"", "in.tmpl"} |->
        IF p = "" THEN <<"{{", ".missing", "}}">>
        ELSE <<"test-", "{{", ".something", "}}", "-test">>]

\* ----------------------------------------------------------------- actions
Init ==
    /\ configuration \in Configurations
    /\ options \in OptionLists
    /\ leftDelim = New(configuration, options).leftDelim
    /\ rightDelim = New(configuration, options).rightDelim
    /\ sprigFuncs \in SprigLibraries
    /\ fs = InitialFiles
    /\ lastOp = "New"
    /\ lastArgs = <<>>
    /\ lastName = ""
    /\ lastText = <<>>
    /\ lastRes = NoResult
    /\ lastErr = Nil
    /\ ioLog = <<>>

\* the process is alive: no Render has exhausted the stack
Alive == ~lastRes.overflow

CallDelim ==
    \E p \in DelimPairs :
        /\ Alive
        /\ leftDelim' = Delim(Self, p[1], p[2]).leftDelim
        /\ rightDelim' = Delim(Self, p[1], p[2]).rightDelim
        /\ configuration' = Delim(Self, p[1], p[2]).configuration
        /\ options' = Delim(Self, p[1], p[2]).options
        /\ lastOp' = "Delim"
        /\ lastArgs' = <<p[1], p[2]>>
        /\ lastName' = ""
        /\ lastText' = <<>>
        /\ lastRes' = NoResult
        /\ lastErr' = Nil
        /\ ioLog' = <<>>
        /\ UNCHANGED <<sprigFuncs, fs>>

CallValidate ==
    /\ Alive
    /\ lastErr' = Validate(Self)
    /\ lastOp' = "Validate"
    /\ lastArgs' = <<>>
    /\ lastName' = ""
    /\ lastText' = <<>>
    /\ lastRes' = NoResult
    /\ ioLog' = <<>>
    /\ UNCHANGED <<configuration, options, leftDelim, rightDelim, sprigFuncs, fs>>

CallRender ==
    \E name \in TemplateNames, text \in Templates :
        /\ Alive
        /\ lastRes' = Render(Self, name, text, Env(fs))
        /\ lastName' = name
        /\ lastText' = text
        /\ lastOp' = "Render"
        /\ lastArgs' = <<>>
        /\ lastErr' = Nil
        /\ ioLog' = <<>>
        /\ UNCHANGED <<configuration, options, leftDelim, rightDelim, sprigFuncs, fs>>

CallSimpleRender ==
    \E text \in Templates :
        /\ Alive
        /\ lastRes' = SimpleRender(Self, text, Env(fs))
        /\ lastName' = "nameless"
        /\ lastText' = text
        /\ lastOp' = "SimpleRender"
        /\ lastArgs' = <<>>
        /\ lastErr' = Nil
        /\ ioLog' = <<>>
        /\ UNCHANGED <<configuration, options, leftDelim, rightDelim, sprigFuncs, fs>>

CallFileRender ==
    \E inputPath \in InputPaths, outputPath \in OutputPaths :
        \E f \in {FileRender(Self, inputPath, outputPath)} :
           /\ Alive
           /\ lastErr' = f.err
           /\ ioLog' = f.log
           /\ fs' = f.fs
           /\ lastOp' = "FileRender"
           /\ lastArgs' = <<inputPath, outputPath>>
           /\ lastName' = f.name
           /\ lastText' = f.text
           /\ lastRes' = f.res
           /\ UNCHANGED <<configuration, options, leftDelim, rightDelim, sprigFuncs>>

Next ==
    \/ CallDelim
    \/ CallValidate
    \/ CallRender
    \/ CallSimpleRender
    \/ CallFileRender

Spec == Init /\ [][Next]_vars

\* ================================================================== claims
Recognized == {MissingKeyErrorOption, MissingKeyInvalidOption}
RenderOps == {"Render", "SimpleRender"}
AllStages == <<"Validate", "Parse", "Execute">>

\* the Renderer passes Validate, stated on the fields
ValidState ==
    /\ configuration.present
    /\ configuration.valid
    /\ leftDelim # ""
    /\ rightDelim # ""
    /\ \A i \in 1..Len(options) : options[i] \in Recognized

\* C1: Validate returns an error if and only if the configuration is absent,
\* or the configuration's own Validate fails, or the left or the right
\* delimiter is empty, or some option is neither "missingkey=error" nor
\* "missingkey=invalid".
C1_ValidateIff ==
    lastOp = "Validate" =>
        ( lastErr # Nil <=>
            \/ ~configuration.present
            \/ (configuration.present /\ ConfigurationValidate(configuration) # Nil)
            \/ leftDelim = ""
            \/ rightDelim = ""
            \/ \E i \in 1..Len(options) : options[i] \notin Recognized )

\* Validate has failed and the only cause is an option after a recognised one
C1_Witness ==
    /\ lastOp = "Validate"
    /\ lastErr # Nil
    /\ configuration.present /\ configuration.valid
    /\ leftDelim # "" /\ rightDelim # ""
    /\ Len(options) = 2
    /\ options[1] \in Recognized

\* C2: Render runs Validate, Parse, Execute in that order; the first stage
\* that fails ends the call, no later stage runs, the error returned is that
\* stage's error and the text returned is empty; text is returned only when
\* all three stages succeeded.
C2_Pipeline ==
    (lastOp \in RenderOps /\ ~lastRes.overflow) =>
        LET v == Validate(Self)
            t == Parse(Self, lastName, lastText, ExtraFunctions(Self))
            x == Execute(Self, t, Env(fs))
        IN /\ lastRes.err # Nil => lastRes.out = <<>>
           /\ lastRes.stages = SubSeq(AllStages, 1, Len(lastRes.stages))
           /\ IF v # Nil
              THEN lastRes.stages = <<"Validate">> /\ lastRes.err = v
              ELSE IF t.err # Nil
              THEN lastRes.stages = <<"Validate", "Parse">> /\ lastRes.err = t.err
              ELSE /\ lastRes.stages = AllStages
                   /\ lastRes.err = x.err
                   /\ x.err = Nil => lastRes.out = x.out

\* Execute failed after text had already been written to the buffer
C2_Witness ==
    /\ lastOp = "Render"
    /\ lastRes.stages = AllStages
    /\ lastRes.err # Nil
    /\ lastRes.out = <<>>
    /\ LET t == Parse(Self, lastName, lastText, ExtraFunctions(Self))
       IN ExecNodes(t, configuration.data, 1, <<>>, <<>>, Env(fs)).out # <<>>

\* the "fail on missing key" policy is the one in effect
FailActive ==
    options # <<>> /\ options[Len(options)] = MissingKeyErrorOption

\* index of the token ".missing" when the text is literal text around the
\* single action "<left> .missing <right>", 0 otherwise
LookupAt(text) ==
    IF \E i \in 2..(Len(text) - 1) :
          /\ text[i] = ".missing"
          /\ text[i - 1] = leftDelim
          /\ text[i + 1] = rightDelim
          /\ \A j \in 1..Len(text) : (text[j] = leftDelim) => (j = i - 1)
    THEN CHOOSE i \in 2..(Len(text) - 1) : text[i] = ".missing"
    ELSE 0

RECURSIVE LineOf(_, _)
LineOf(text, i) ==
    IF i = 0 THEN 1
    ELSE LineOf(text, i - 1) + (IF text[i] = Newline THEN 1 ELSE 0)

\* bytes on the line before the token at i + 1
RECURSIVE BytesBefore(_, _)
BytesBefore(text, i) ==
    IF i = 0 \/ text[i] = Newline THEN 0
    ELSE BytesBefore(text, i - 1) + Width(text[i])

\* C3: for a template whose only unresolved element is a lookup of a key the
\* map-like configuration lacks, Render returns an error if and only if the
\* "fail on missing key" option is in effect; the error then carries the
\* template name with the line:column of the lookup and the missing key's
\* name; otherwise Render returns no error and the output holds the fixed
\* placeholder in place of the lookup.
C3_MissingKey ==
    LET i == LookupAt(lastText)
    IN (lastOp \in RenderOps \cup {"FileRender"} /\ ValidState /\ i # 0
        /\ lastRes.stages # <<>>) =>
          /\ lastRes.err # Nil <=> FailActive
          /\ FailActive =>
                \E k \in 1..Len(lastRes.err) :
                    /\ lastRes.err[k].name = lastName
                    /\ lastRes.err[k].line = LineOf(lastText, i)
                    /\ lastRes.err[k].col = BytesBefore(lastText, i - 1) + 1
                    /\ lastRes.err[k].key = "missing"
          /\ ~FailActive =>
                lastRes.out = SubSeq(lastText, 1, i - 2) \o <<NoValue>>
                                \o SubSeq(lastText, i + 2, Len(lastText))

\* the lookup sits on the second line of the template and the call failed
C3_Witness ==
    /\ lastOp = "Render"
    /\ ValidState
    /\ LookupAt(lastText) # 0
    /\ LineOf(lastText, LookupAt(lastText)) = 2
    /\ lastRes.err # Nil
    /\ \E k \in 1..Len(lastRes.err) :
          /\ lastRes.err[k].msg = "map has no entry for key"
          /\ lastRes.err[k].line = 2 /\ lastRes.err[k].col = 8

\* standard input holds "{{ .missing }}": the error names stdin:1:3
C3_WitnessStdin ==
    /\ lastOp = "FileRender"
    /\ lastName = "stdin"
    /\ \E k \in 1..Len(lastErr) :
          /\ lastErr[k].name = "stdin" /\ lastErr[k].line = 1 /\ lastErr[k].col = 3
          /\ lastErr[k].key = "missing"

\* every lookup and every function call of the text resolves: the text
\* parses, every field is a key of the configuration, every call is a render
\* of a text that resolves or a readFile of a file that exists
RECURSIVE ResolvableText(_, _)
ResolvableText(text, fuel) ==
    /\ fuel > 0
    /\ LET t == Parse(Self, "nameless", text, ExtraFunctions(Self))
           data == configuration.data
       IN /\ t.err = Nil
          /\ \A k \in 1..Len(t.nodes) :
                LET n == t.nodes[k]
                    arg == IF n.argKind = "field" THEN data[FieldKey(n.argVal)] ELSE n.arg
                IN \/ n.kind \in {"text", "number", "string"}
                   \/ n.kind = "field" /\ FieldKey(n.val) \in DOMAIN data
                   \/ /\ n.kind = "call"
                      /\ n.argKind \in {"field", "string"}
                      /\ n.argKind = "field" => FieldKey(n.argVal) \in DOMAIN data
                      /\ \/ n.val = "render" /\ ResolvableText(arg, fuel - 1)
                         \/ n.val = "readFile" /\ Len(arg) = 1 /\ arg[1] # ""
                              /\ arg[1] \in DOMAIN fs

\* C4: with a valid configuration, non-empty delimiters and recognised
\* options, Render of a syntactically valid text in which every lookup and
\* function call resolves returns no error; the empty template gives the
\* empty string, and "test-{{ .something }}-test" gives the surrounding text
\* with the key's value inserted.
C4_NoErrorWhenResolvable ==
    (lastOp \in RenderOps /\ ValidState /\ ResolvableText(lastText, StackCapacity)) =>
        /\ ~lastRes.overflow
        /\ lastRes.err = Nil
        /\ lastText = <<>> => lastRes.out = <<>>
        /\ (lastText = <<"test-", "{{", ".something", "}}", "-test">>
              /\ leftDelim = "{{" /\ rightDelim = "}}")
             => lastRes.out = <<"test-", "test", "-test">>

\* a resolvable template with a nested render, under the placeholder option
C4_Witness ==
    /\ lastOp = "Render"
    /\ ValidState
    /\ options = <<MissingKeyInvalidOption>>
    /\ ResolvableText(lastText, StackCapacity)
    /\ lastText = <<"{{", "render", ".w", "}}">>
    /\ lastRes.out = <<"test">>

\* C5: the value the template function render gives for a nested text x is
\* the result of SimpleRender(x) on the same Renderer, that is of
\* Render("nameless", x); the nested call runs the whole pipeline, Validate
\* first; a failure of the nested render fails the enclosing Render.
C5_RecursionTransparency ==
    (lastOp \in RenderOps /\ ~lastRes.overflow) =>
        \A k \in 1..Len(lastRes.calls) :
            LET c == lastRes.calls[k]
                n == SimpleRender(Self, c.arg, Env(fs))
                m == Render(Self, "nameless", c.arg, Env(fs))
            IN c.name = "render" =>
                /\ ~n.overflow
                /\ c.out = n.out /\ c.err = n.err /\ c.stages = n.stages
                /\ n = m
                /\ c.stages # <<>> /\ c.stages[1] = "Validate"
                /\ n.err # Nil => (lastRes.err # Nil /\ lastRes.out = <<>>)
                /\ (n.err = Nil /\ Len(lastText) = Len(c.arg) + 4 /\ lastRes.err = Nil)
                      => lastRes.out = n.out

\* a nested render failed on a missing key and so did the enclosing Render
C5_Witness ==
    /\ lastOp = "Render"
    /\ Len(lastRes.calls) = 1
    /\ lastRes.calls[1].name = "render"
    /\ lastRes.calls[1].arg = <<"{{", ".missing", "}}">>
    /\ lastRes.calls[1].err # Nil
    /\ lastRes.err # Nil

IsWrite(e) == e.op = "WriteOutput"

\* C6: FileRender performs ReadInput, Render, WriteOutput in that order;
\* Render gets the name "stdin" for an empty input path and the input path
\* otherwise; WriteOutput is called exactly once, with the rendered text and
\* mode 0644, if and only if ReadInput and Render both succeeded; a failing
\* step's error is returned unchanged and no later step runs.
C6_FileRender ==
    (lastOp = "FileRender" /\ ~lastRes.overflow) =>
        LET inputPath == lastArgs[1]
            outputPath == lastArgs[2]
            readOk == inputPath \in DOMAIN fs
            writes == {k \in 1..Len(ioLog) : IsWrite(ioLog[k])}
        IN /\ ioLog # <<>>
           /\ ioLog[1] = IoCall("ReadInput", inputPath, <<>>, 0)
           /\ Cardinality(writes) = (IF readOk /\ lastRes.err = Nil THEN 1 ELSE 0)
           /\ ~readOk =>
                /\ lastErr # Nil /\ lastErr[1].kind = "io"
                /\ lastRes.stages = <<>>
                /\ ioLog = <<IoCall("ReadInput", inputPath, <<>>, 0)>>
           /\ readOk =>
                /\ lastName = (IF inputPath = "" THEN "stdin" ELSE inputPath)
                /\ lastText = fs[inputPath]
                /\ lastRes.stages # <<>>
                /\ lastRes.stages[1] = "Validate"
           /\ (readOk /\ lastRes.err # Nil) =>
                /\ lastErr = lastRes.err
                /\ Len(ioLog) = 1
           /\ (readOk /\ lastRes.err = Nil) =>
                /\ ioLog = <<IoCall("ReadInput", inputPath, <<>>, 0),
                             IoCall("WriteOutput", outputPath, lastRes.out, FileMode)>>
                /\ lastErr # Nil <=> outputPath \in Unwritable
                /\ lastErr # Nil => lastErr[1].key = outputPath
                /\ (outputPath \notin Unwritable /\ outputPath # "")
                      => (outputPath \in DOMAIN fs /\ fs[outputPath] = lastRes.out)

\* standard input was read and rendered under the name "stdin", the render
\* failed and nothing was written
C6_Witness ==
    /\ lastOp = "FileRender"
    /\ lastArgs = <<"", "out.txt">>
    /\ lastName = "stdin"
    /\ lastRes.stages = AllStages
    /\ lastErr # Nil
    /\ Len(ioLog) = 1
    /\ "out.txt" \notin DOMAIN fs

\* the function a custom name must be bound to
CustomFn(n) ==
    CASE n = "render" -> "SimpleRender"
      [] n = "readFile" -> "ReadFile"
      [] n = "toYaml" -> "ToYaml"
      [] n = "gzip" -> "Gzip"
      [] n = "ungzip" -> "Ungzip"

\* C8: the function table built for a Render call holds every entry of the
\* generic library and the five custom names render, readFile, toYaml, gzip
\* and ungzip; each of the five maps to the custom function whether or not
\* the generic library defines the name, and render is bound to SimpleRender
\* of the Renderer that built the table.
C8_FunctionTable ==
    LET table == ExtraFunctions(Self)
    IN /\ \A n \in DOMAIN sprigFuncs :
            /\ n \in DOMAIN table
            /\ n \notin {"render", "readFile", "toYaml", "gzip", "ungzip"}
                  => table[n] = sprigFuncs[n]
       /\ \A n \in {"render", "readFile", "toYaml", "gzip", "ungzip"} :
            /\ n \in DOMAIN table
            /\ table[n].fn = CustomFn(n)
       /\ table["render"].recv = Self
       /\ lastOp \in RenderOps =>
            \A k \in 1..Len(lastRes.calls) :
                lastRes.calls[k].name \in {"render", "readFile"}
                    => lastRes.calls[k].fn = CustomFn(lastRes.calls[k].name)

\* the generic library defines render too, and a template has called render
C8_Witness ==
    /\ "render" \in DOMAIN sprigFuncs
    /\ lastOp = "Render"
    /\ Len(lastRes.calls) = 1
    /\ lastRes.calls[1].name = "render"
    /\ lastRes.calls[1].fn = "SimpleRender"

\* what Render returns for a text with the given files on disk
RenderWith(files, text) == Render(Self, "t.tmpl", text, Env(files))

\* the template calls readFile
ReadsFiles(text) == \E i \in 1..Len(text) : text[i] = "readFile"

\* Delim(l, r) sets exactly (l, r) and nothing else; no other call changes
\* the Renderer
StepFrame ==
    /\ lastOp' = "Delim" =>
          /\ leftDelim' = lastArgs'[1]
          /\ rightDelim' = lastArgs'[2]
          /\ configuration' = configuration
          /\ options' = options
    /\ lastOp' # "Delim" => Self' = Self

\* a Render uses the delimiters now set: a text without the left delimiter is
\* copied to the output, and "[[ .something ]]{{" is an action and a literal
\* under "[[", "]]" and an unclosed action under "{{", "}}"
UsesDelims ==
    (lastOp \in RenderOps /\ ValidState) =>
        /\ (\A j \in 1..Len(lastText) : lastText[j] # leftDelim)
              => (lastRes.err = Nil /\ lastRes.out = lastText)
        /\ lastText = <<"[[", ".something", "]]", "{{">> =>
              /\ (leftDelim = "[[" /\ rightDelim = "]]")
                    => lastRes.out = <<"test", "{{">>
              /\ (leftDelim = "{{" /\ rightDelim = "}}")
                    => (lastRes.err # Nil /\ lastRes.err[1].kind = "parse")

\* the original C7: in any sequence of calls only Delim changes the
\* Renderer, Delim(l, r) sets the delimiters to exactly (l, r) and leaves the
\* rest, and no call other than Delim changes what Render returns for a name
\* and a text.
C7_OnlyDelimChangesRender ==
    [][ /\ StepFrame
        /\ lastOp' # "Delim" =>
              \A t \in Templates : RenderWith(fs', t) = RenderWith(fs, t)
      ]_vars

\* C7 as amended: only Delim changes the Renderer; Delim(l, r) sets the
\* delimiters to exactly (l, r), unvalidated, and leaves configuration and
\* options; later Renders use them; two Render calls with the same name and
\* text and no Delim between them give the same result when the template does
\* not call readFile (a FileRender in between may write the file it reads).
C7_Frame ==
    [][ /\ StepFrame
        /\ UsesDelims'
        /\ (lastOp \in RenderOps /\ lastOp' \in RenderOps
              /\ lastName' = lastName /\ lastText' = lastText /\ ~ReadsFiles(lastText))
             => lastRes' = lastRes
        /\ (lastOp' # "Delim" /\ fs' # fs) =>
              \A t \in Templates :
                  ~ReadsFiles(t) => RenderWith(fs', t) = RenderWith(fs, t)
      ]_vars

\* Delim was handed an empty left delimiter and stored it
C7_Witness ==
    /\ lastOp = "Delim"
    /\ lastArgs = <<"", "}}">>
    /\ leftDelim = "" /\ rightDelim = "}}"

\* the Renderer with another option list
WithOptions(q) == [Self EXCEPT !.options = q]

AllRecognized(q) == \A i \in 1..Len(q) : q[i] \in Recognized

\* q holds the elements of o in some order
IsPermutation(q, o) ==
    /\ Len(q) = Len(o)
    /\ \A x \in Recognized :
          Cardinality({i \in 1..Len(q) : q[i] = x})
            = Cardinality({i \in 1..Len(o) : o[i] = x})

\* the literal that ends the list; an empty list is the engine default
LastLiteral(q) == IF q = <<>> THEN MissingKeyInvalidOption ELSE q[Len(q)]

\* the original C9: two Renderers whose option lists hold the same
\* recognised literals in a different order give the same Validate and the
\* same Render result for every name and text.
C9_OptionsAsSet ==
    (lastOp \in RenderOps /\ AllRecognized(options)) =>
        \A q \in OptionLists :
            IsPermutation(q, options) =>
                /\ Validate(WithOptions(q)) = Validate(Self)
                /\ Render(WithOptions(q), lastName, lastText, Env(fs)) = lastRes

\* C9 as amended: option lists holding the same recognised literals in a
\* different order give the same Validate result, and the same Render result
\* whenever the lists end with the same literal: the last literal sets the
\* missing-key policy, and a list holding both literals behaves as its last.
C9_LastOptionDecides ==
    (lastOp \in RenderOps /\ AllRecognized(options)) =>
        \A q \in OptionLists :
            /\ IsPermutation(q, options) =>
                  Validate(WithOptions(q)) = Validate(Self)
            /\ (AllRecognized(q) /\ LastLiteral(q) = LastLiteral(options)) =>
                  Render(WithOptions(q), lastName, lastText, Env(fs)) = lastRes

\* the list holds both literals, the last one is "missingkey=error", and the
\* Render of a missing key failed
C9_Witness ==
    /\ lastOp = "Render"
    /\ options = <<MissingKeyInvalidOption, MissingKeyErrorOption>>
    /\ ValidState
    /\ lastText = <<"{{", ".missing", "}}">>
    /\ lastRes.err # Nil

\* C10: every call to Render reaches a terminal outcome (validation failure,
\* parse failure, executed with success or with failure), also for a template
\* that renders a configuration value which renders itself.
C10_RenderTerminates ==
    lastOp \in RenderOps \cup {"FileRender"} => ~lastRes.overflow

====
